---- MODULE Spec2Model ----
(***************************************************************************)
(* Model of the misaka client agent.                                       *)
(*                                                                         *)
(*   src/app.js                 the connection manager: login / retry,     *)
(*                              the outbound queue and its flush cycle     *)
(*   src/utils/log_scanner.js   the log scanner: polling loop, change      *)
(*                              detection and chunked reads                *)
(*                                                                         *)
(* Node runs every handler to completion, so one action is one callback   *)
(* (or one public call) together with everything it calls synchronously.  *)
(***************************************************************************)
EXTENDS Integers, Sequences, FiniteSets, TLC

\* ------------------------------------------------------------------ bounds
MaxMsgs    == 3   \* send() calls in one behaviour
MaxSockets == 2   \* streams opened by io() in one behaviour
MaxQueue   == 2   \* cap on the queue length at which the application still calls connect()

MaxSize    == 3   \* largest file size in bytes
MaxWrites  == 2   \* modifications of the log files in one behaviour
MaxLoops   == 2   \* cap on the polling loops (pending timers and cycles in flight) at which start() is still called

MAX_FILE_READ_SIZE == 2   \* bytes per fs.read (256KB in the source, scaled to MaxSize)

Sockets == 1..MaxSockets
NoSocket == 0     \* null
Sentinel == 0     \* the null entry connect() pushes

\* ------------------------------------------------------------------ state
VARIABLES
    started,       \* App.start has run
    socket,        \* this._socket (NoSocket = null)
    connected,     \* this._connected
    sendingQueue,  \* this._sendingQueue
    sending,       \* this._sending
    immediates,    \* number of setImmediate(flush) callbacks not yet run
    attempts,      \* login closures waiting for an HTTP answer or for the retry timer
    handlers,      \* per stream: the login closures whose "connect"/"disconnect" listeners are registered
    sockStatus,    \* per stream: what the transport has done with it
    emitted,       \* socket.emit calls so far, in order
    sendLog        \* send() calls so far: the streams already closed and this._connected when each was made

appVars == <<started, socket, connected, sendingQueue, sending, immediates,
             attempts, handlers, sockStatus, emitted, sendLog>>

VARIABLES
    logs,          \* this._logs
    stats,         \* this._stats: path -> {size, mtime, offset}, NoStat where there is no entry
    timer,         \* this._timer: NoTimer (null) or the handle setTimeout returned
    pending,       \* handles of the setTimeout callbacks that have not fired and were not cleared
    cycles,        \* scan cycles past their stat pass, waiting for fs.open / fs.read / fs.close
    brainBound,    \* this._brain is set
    brain,         \* the values the brain holds under brainKey + "/logs" and brainKey + "/stats"
    fs,            \* the log files: size, mtime and generation (bumped when the file is truncated)
    lastBatch      \* the files argument of the last call of the result callback

scanVars == <<logs, stats, timer, pending, cycles, brainBound, brain, fs, lastBatch>>

VARIABLE
    lastCall       \* history: the last call the application made to the scanner (ApiSpec),
                   \* or whether the last result callback returned or threw

vars == <<appVars, scanVars, lastCall>>

\* The fields of App and the callbacks it has pending, as one value, so that
\* the methods below can be composed the way the code calls them.
AppState ==
    [socket |-> socket, connected |-> connected, sendingQueue |-> sendingQueue,
     sending |-> sending, immediates |-> immediates, attempts |-> attempts,
     handlers |-> handlers, sockStatus |-> sockStatus, emitted |-> emitted]

SetApp(a) ==
    /\ socket' = a.socket
    /\ connected' = a.connected
    /\ sendingQueue' = a.sendingQueue
    /\ sending' = a.sending
    /\ immediates' = a.immediates
    /\ attempts' = a.attempts
    /\ handlers' = a.handlers
    /\ sockStatus' = a.sockStatus
    /\ emitted' = a.emitted
    /\ UNCHANGED <<scanVars, lastCall>>

RemoveAt(s, i) == [j \in 1..(Len(s) - 1) |-> IF j < i THEN s[j] ELSE s[j + 1]]

\* ---------------------------------------------------------------- methods
\* scheduleFlush without its this._sending guard
scheduleFlushUnguarded(a) ==
    [a EXCEPT !.sending = TRUE, !.immediates = @ + 1]

\* App.prototype.scheduleFlush
scheduleFlush(a) ==
    IF a.sending THEN a
    ELSE [a EXCEPT !.sending = TRUE, !.immediates = @ + 1]

\* App.prototype.connect
connect(a) ==
    IF a.connected THEN a
    ELSE scheduleFlush([a EXCEPT !.sendingQueue = Append(@, Sentinel)])

\* App.prototype.send
send(a, m) == scheduleFlush([a EXCEPT !.sendingQueue = Append(@, m)])

\* the queue walked from its last entry to its first
RECURSIVE EmitAllReversed(_, _, _)
EmitAllReversed(q, s, st) ==
    IF q = <<>> THEN <<>>
    ELSE EmitAllReversed(Tail(q), s, st)
         \o (IF Head(q) = Sentinel THEN <<>>
             ELSE <<[msg |-> Head(q), sock |-> s,
                     live |-> s # NoSocket /\ st[s] = "connected"]>>)

\* the _.each(queue, ...) of flush's callback: every non-null entry is emitted on s
RECURSIVE EmitAll(_, _, _)
EmitAll(q, s, st) ==
    IF q = <<>> THEN <<>>
    ELSE (IF Head(q) = Sentinel THEN <<>>
          ELSE <<[msg |-> Head(q), sock |-> s,
                  live |-> s # NoSocket /\ st[s] = "connected"]>>)
         \o EmitAll(Tail(q), s, st)

\* the success branch of login's inner function login(err, socket)
loginOk(a, q, s) ==
    [a EXCEPT !.socket = s, !.handlers[s] = Append(@, q)]

\* App.prototype.tryLogin, up to the POST /challenge
tryLogin(a, q) ==
    IF a.socket # NoSocket THEN loginOk(a, q, a.socket)
    ELSE [a EXCEPT !.attempts = Append(@, [queue |-> q, stage |-> "challenge"])]

RECURSIVE flush(_)
RECURSIVE login(_, _)
RECURSIVE flushCb(_, _, _)

\* the callback flush hands to login
flushCb(a, q, s) ==
    flush([a EXCEPT !.emitted = @ \o EmitAll(q, s, a.sockStatus)])

\* App.prototype.login
login(a, q) ==
    IF a.connected THEN flushCb(a, q, a.socket)
    ELSE tryLogin(a, q)

\* flush that leaves the entries in this._sendingQueue while it waits for the login
flushKeepsQueue(a) ==
    IF a.sendingQueue = <<>> THEN [a EXCEPT !.sending = FALSE]
    ELSE login(IF a.connected THEN [a EXCEPT !.sendingQueue = <<>>] ELSE a,
               a.sendingQueue)

\* flush that clears this._sending before it waits for the login
flushClearsFlag(a) ==
    IF a.sendingQueue = <<>> THEN [a EXCEPT !.sending = FALSE]
    ELSE login([a EXCEPT !.sendingQueue = <<>>, !.sending = FALSE], a.sendingQueue)

\* App.prototype.flush
flush(a) ==
    IF a.sendingQueue = <<>> THEN [a EXCEPT !.sending = FALSE]
    ELSE login([a EXCEPT !.sendingQueue = <<>>], a.sendingQueue)

\* the "connect" listeners of stream s, in registration order
RECURSIVE onConnect(_, _, _)
onConnect(a, s, hs) ==
    IF hs = <<>> THEN a
    ELSE onConnect(flushCb([a EXCEPT !.connected = TRUE], Head(hs), s), s, Tail(hs))

\* a "disconnect" listener that leaves this._socket and this._connected as they are
onDisconnectNoReset(a, hs) == a

\* a "disconnect" listener that resets the session but does not call connect()
onDisconnectNoReconnect(a, hs) ==
    IF hs = <<>> THEN a ELSE [a EXCEPT !.socket = NoSocket, !.connected = FALSE]

\* the "disconnect" listeners of stream s, in registration order
RECURSIVE onDisconnect(_, _)
onDisconnect(a, hs) ==
    IF hs = <<>> THEN a
    ELSE onDisconnect(connect([a EXCEPT !.socket = NoSocket, !.connected = FALSE]),
                      Tail(hs))

\* ------------------------------------------------------------------- init
AppInit ==
    /\ started = FALSE
    /\ socket = NoSocket
    /\ connected = FALSE
    /\ sendingQueue = <<>>
    /\ sending = FALSE
    /\ immediates = 0
    /\ attempts = <<>>
    /\ handlers = [s \in Sockets |-> <<>>]
    /\ sockStatus = [s \in Sockets |-> "unused"]
    /\ emitted = <<>>
    /\ sendLog = <<>>

\* ============================================================ log scanner
Paths == {1, 2}      \* the two log files the application knows
TimerIds == 1..MaxLoops
NoTimer == 0       \* null
Undefined == -1    \* undefined: a missing field or a key the brain does not hold
Garbage == -2      \* a byte of the Buffer that fs.read did not fill
NoText == <<-3>>   \* no entry for the path in files

\* stats[log] || {offset: 0}
NoStat == [size |-> Undefined, mtime |-> Undefined, offset |-> 0]

\* byte k of generation g of a file
Byte(g, k) == 10 * g + k

Min(a, b) == IF a < b THEN a ELSE b
Max(a, b) == IF a > b THEN a ELSE b

\* the bytes fs.read returns for (position, length) on file f
FileBytes(f, pos, n) == [k \in 1..n |-> Byte(f.gen, pos + k - 1)]

RECURSIVE SeqToSet(_)
SeqToSet(q) == IF q = <<>> THEN {} ELSE {Head(q)} \cup SeqToSet(Tail(q))

\* the fields of LogScanner and its pending callbacks, as one value
ScanState ==
    [logs |-> logs, stats |-> stats, timer |-> timer, pending |-> pending,
     cycles |-> cycles, brainBound |-> brainBound, brain |-> brain,
     lastBatch |-> lastBatch]

SetScan(z) ==
    /\ logs' = z.logs
    /\ stats' = z.stats
    /\ timer' = z.timer
    /\ pending' = z.pending
    /\ cycles' = z.cycles
    /\ brainBound' = z.brainBound
    /\ brain' = z.brain
    /\ lastBatch' = z.lastBatch
    /\ UNCHANGED appVars

\* a value the brain holds, or undefined
Defined(v) == [def |-> TRUE, val |-> v]
UndefinedLogs == [def |-> FALSE, val |-> <<>>]
UndefinedStats == [def |-> FALSE, val |-> [p \in Paths |-> NoStat]]

\* brain.set(key, value): the brain keeps the value and emits "change:" + key
brainSet(b, key, value) == [b EXCEPT ![key] = Defined(value)]

\* this._brainLogsChanged: logs || []
brainLogsChanged(z, v) == [z EXCEPT !.logs = IF v.def THEN v.val ELSE <<>>]

\* this._brainStatsChanged: stats || {}
brainStatsChanged(z, v) ==
    [z EXCEPT !.stats = IF v.def THEN v.val ELSE [p \in Paths |-> NoStat]]

\* LogScanner.prototype.monitor: arm the timer unless one is set
monitor(z) ==
    IF z.timer # NoTimer THEN z
    ELSE LET t == CHOOSE x \in TimerIds \ z.pending :
                      \A y \in TimerIds \ z.pending : x <= y
         IN [z EXCEPT !.timer = t, !.pending = @ \cup {t}]

\* LogScanner.prototype.start
start(z) == IF z.timer # NoTimer THEN z ELSE monitor(z)

\* LogScanner.prototype.stop
stop(z) == [z EXCEPT !.pending = @ \ {z.timer}, !.timer = NoTimer]

\* addLog without the test of lines 70-73
addLogUnchecked(z, log) ==
    LET pushed == [z EXCEPT !.logs = Append(@, log)]
    IN IF z.brainBound
       THEN brainLogsChanged([pushed EXCEPT !.brain = brainSet(@, "logs", pushed.logs)],
                             Defined(pushed.logs))
       ELSE pushed

\* LogScanner.prototype.addLog
addLog(z, log) ==
    IF log \in SeqToSet(z.logs) THEN z
    ELSE LET pushed == [z EXCEPT !.logs = Append(@, log)]
         IN IF z.brainBound
            THEN brainLogsChanged([pushed EXCEPT !.brain = brainSet(@, "logs", pushed.logs)],
                                  Defined(pushed.logs))
            ELSE pushed

\* the filter of removeLog
RECURSIVE Without(_, _)
Without(q, log) ==
    IF q = <<>> THEN <<>>
    ELSE (IF Head(q) = log THEN <<>> ELSE <<Head(q)>>) \o Without(Tail(q), log)

\* LogScanner.prototype.removeLog: len and this._logs.length are the same number
removeLog(z, log) ==
    LET len == Len(z.logs)
        filtered == Without(z.logs, log)
    IN IF z.brainBound
       THEN IF len # Len(z.logs)
            THEN brainLogsChanged([z EXCEPT !.brain = brainSet(@, "logs", filtered)], Defined(filtered))
            ELSE z
       ELSE [z EXCEPT !.logs = filtered]

\* LogScanner.prototype.removeAllLogs
removeAllLogs(z) ==
    IF z.brainBound
    THEN brainLogsChanged([z EXCEPT !.brain = brainSet(@, "logs", <<>>)], Defined(<<>>))
    ELSE [z EXCEPT !.logs = <<>>]

\* LogScanner.prototype.setBrain
setBrain(z) ==
    brainLogsChanged(brainStatsChanged([z EXCEPT !.brainBound = TRUE], z.brain.stats),
                     z.brain.logs)

\* -------------------------------------------------------- the stat pass
\* A cycle that is reading log holds the object stats[log] had when scan()
\* took it.  Line 184 resets the offset of that object in place and line 187
\* puts a new object into stats: from then on the cycle works on its own copy.
Detach(cs, log, old) ==
    [i \in DOMAIN cs |->
        IF cs[i].log = log /\ ~cs[i].stale
        THEN [cs[i] EXCEPT !.stale = TRUE, !.stat = old]
        ELSE cs[i]]

\* the stat pass without the test of lines 177-180: an unchanged file is
\* treated like a changed one
detectOneAlways(d, log, f, res) ==
    LET prev == d.stats[log]
        off  == IF prev.offset # 0 /\ prev.offset > f.size THEN 0 ELSE prev.offset
    IN IF res = "throw" THEN d
       ELSE IF res = "notfile" THEN d
       ELSE [stats   |-> [d.stats EXCEPT ![log] =
                             [size |-> f.size, mtime |-> f.mtime, offset |-> off]],
             changed |-> IF f.size > off THEN Append(d.changed, log) ELSE d.changed,
             cycles  |-> Detach(d.cycles, log, [prev EXCEPT !.offset = off])]

\* the stat pass without lines 182-185: the offset is kept after a truncation
detectOneNoReset(d, log, f, res) ==
    LET prev == d.stats[log]
        off  == prev.offset
    IN IF res = "throw" THEN d
       ELSE IF res = "notfile" THEN d
       ELSE IF prev.size = f.size /\ prev.mtime = f.mtime THEN d
       ELSE [stats   |-> [d.stats EXCEPT ![log] =
                             [size |-> f.size, mtime |-> f.mtime, offset |-> off]],
             changed |-> IF f.size > off THEN Append(d.changed, log) ELSE d.changed,
             cycles  |-> Detach(d.cycles, log, [prev EXCEPT !.offset = off])]

\* one round of the _.each(logs, ...) of the timer callback; d = [stats, changed, cycles]
detectOne(d, log, f, res) ==
    LET prev == d.stats[log]
        off  == IF prev.offset # 0 /\ prev.offset > f.size THEN 0 ELSE prev.offset
    IN IF res = "throw" THEN d
       ELSE IF res = "notfile" THEN d
       ELSE IF prev.size = f.size /\ prev.mtime = f.mtime THEN d
       ELSE [stats   |-> [d.stats EXCEPT ![log] =
                             [size |-> f.size, mtime |-> f.mtime, offset |-> off]],
             changed |-> IF f.size > off THEN Append(d.changed, log) ELSE d.changed,
             cycles  |-> Detach(d.cycles, log, [prev EXCEPT !.offset = off])]

RECURSIVE detect(_, _, _, _)
detect(d, ls, files, res) ==
    IF ls = <<>> THEN d
    ELSE detect(detectOne(d, Head(ls), files[Head(ls)], res[Head(ls)]), Tail(ls), files, res)

\* ------------------------------------------------------------- scanLogs
\* the stat object a cycle reads and advances
StatOf(z, c) == IF c.stale THEN c.stat ELSE z.stats[c.log]

\* scanLogs.readAll up to its fs.read: either the delta is consumed and the
\* text goes into files, or a read of at most MAX_FILE_READ_SIZE bytes is issued
readAll(z, c) ==
    LET st   == StatOf(z, c)
        size == st.size - st.offset
    IN IF size = 0
       THEN [c EXCEPT !.files[c.log] = c.output, !.phase = "close"]
       ELSE [c EXCEPT !.phase = "read",
                      !.reqLen = Min(size, MAX_FILE_READ_SIZE),
                      !.reqPos = st.offset]

\* scanLogs.scan: take the next changed log and open it, or finish
scan(z, c) ==
    IF c.index >= Len(c.changed) THEN [c EXCEPT !.phase = "done"]
    ELSE [c EXCEPT !.index = @ + 1, !.log = c.changed[c.index + 1],
                   !.phase = "open", !.stale = FALSE, !.stat = NoStat,
                   !.output = <<>>, !.reqLen = 0, !.reqPos = 0, !.from = 0,
                   !.prev = [p \in Paths |-> IF p = c.log THEN NoStat ELSE @[p]]]

\* what the result callback does before it returns
CbBehaviours == {"return", "throw", "stop", "start", "stopstart"}

callback(z, does) ==
    IF does = "stop" THEN stop(z)
    ELSE IF does = "start" THEN start(z)
    ELSE IF does = "stopstart" THEN start(stop(z))
    ELSE z

\* lines 212-229 without the try/catch of lines 220-224: an exception of the
\* result callback leaves the function before _timer = null and monitor()
finishUncaught(z, i, c, does) ==
    LET kept   == [z EXCEPT !.cycles = [j \in 1..(Len(@) - 1) |-> IF j < i THEN @[j] ELSE @[j + 1]]]
        saved  == IF z.brainBound
                  THEN brainStatsChanged([kept EXCEPT !.brain = brainSet(@, "stats", z.stats)],
                                         Defined(z.stats))
                  ELSE kept
        called == callback([saved EXCEPT !.lastBatch = c.files], does)
    IN IF does = "throw" THEN called
       ELSE monitor([called EXCEPT !.timer = NoTimer])

\* the callback monitor hands to scanLogs (lines 212-229), for cycle i
finish(z, i, c, does) ==
    LET kept   == [z EXCEPT !.cycles = [j \in 1..(Len(@) - 1) |-> IF j < i THEN @[j] ELSE @[j + 1]]]
        saved  == IF z.brainBound
                  THEN brainStatsChanged([kept EXCEPT !.brain = brainSet(@, "stats", z.stats)],
                                         Defined(z.stats))
                  ELSE kept
        called == callback([saved EXCEPT !.lastBatch = c.files], does)
    IN monitor([called EXCEPT !.timer = NoTimer])

\* put cycle c back in slot i, or finish it when scan() found no log left
resume(z, i, c, does) ==
    IF c.phase = "done" THEN finish(z, i, c, does)
    ELSE [z EXCEPT !.cycles[i] = c]

\* the timer callback of monitor (lines 163-230): the stat pass, then scanLogs.
\* The cycle it starts carries scanLogs' locals (changed, index, files, the
\* log being read with its output and its pending fs.read) and two history
\* fields: prev, the stored state each listed file had before the stat pass,
\* kept until the cycle is done with the file, and from, the offset at which
\* the file was opened.
timerFired(z, t, files, res) ==
    LET fired == [z EXCEPT !.pending = @ \ {t}]
        d == detect([stats |-> z.stats, changed |-> <<>>, cycles |-> z.cycles],
                    z.logs, files, res)
        seen == [fired EXCEPT !.stats = d.stats, !.cycles = d.cycles]
        c == [changed |-> d.changed, index |-> 0, log |-> 0, phase |-> "scan",
              stale |-> FALSE, stat |-> NoStat, output |-> <<>>,
              reqLen |-> 0, reqPos |-> 0, from |-> 0,
              files |-> [p \in Paths |-> NoText],
              prev |-> [p \in Paths |-> IF p \in SeqToSet(d.changed) THEN z.stats[p] ELSE NoStat]]
    IN IF d.changed = <<>> THEN monitor([seen EXCEPT !.timer = NoTimer])
       ELSE [seen EXCEPT !.cycles = Append(@, scan(seen, c))]

\* the fs.read callback without the recursion of line 315: the first chunk
\* is handed on as the whole output
readDoneOneChunk(z, c, f) ==
    LET read  == Min(c.reqLen, Max(0, f.size - c.reqPos))
        text  == FileBytes(f, c.reqPos, read) \o [k \in 1..(c.reqLen - read) |-> Garbage]
        st    == StatOf(z, c)
        moved == [st EXCEPT !.offset = @ + read]
        z2    == IF c.stale THEN z ELSE [z EXCEPT !.stats[c.log] = moved]
        c2    == [c EXCEPT !.stat = IF c.stale THEN moved ELSE @,
                           !.output = @ \o text]
    IN IF read = 0
       THEN [z |-> z, c |-> [c EXCEPT !.files[c.log] = c.output, !.phase = "close"]]
       ELSE [z |-> z2, c |-> [c2 EXCEPT !.files[c.log] = c2.output, !.phase = "close"]]

\* the fs.read callback of readAll (lines 302-316)
readDone(z, c, f) ==
    LET read  == Min(c.reqLen, Max(0, f.size - c.reqPos))
        text  == FileBytes(f, c.reqPos, read) \o [k \in 1..(c.reqLen - read) |-> Garbage]
        st    == StatOf(z, c)
        moved == [st EXCEPT !.offset = @ + read]
        z2    == IF c.stale THEN z ELSE [z EXCEPT !.stats[c.log] = moved]
        c2    == [c EXCEPT !.stat = IF c.stale THEN moved ELSE @,
                           !.output = @ \o text]
    IN IF read = 0
       THEN [z |-> z, c |-> [c EXCEPT !.files[c.log] = c.output, !.phase = "close"]]
       ELSE [z |-> z2, c |-> readAll(z2, c2)]

\* ------------------------------------------------------------------- init
ScanInit ==
    /\ logs = <<>>
    /\ stats = [p \in Paths |-> NoStat]
    /\ timer = NoTimer
    /\ pending = {}
    /\ cycles = <<>>
    /\ brainBound = FALSE
    /\ brain = [logs |-> Defined(<<1>>), stats |-> UndefinedStats]
    /\ fs = [p \in Paths |-> [size |-> 0, mtime |-> 0, gen |-> 0]]
    /\ lastBatch = [p \in Paths |-> NoText]
    /\ lastCall = [op |-> "none", log |-> 0]

Init == AppInit /\ ScanInit

\* -------------------------------------------------------- scanner actions
Loops == Cardinality(pending) + Len(cycles)

\* what lastCall remembers: the last call or callback and its argument
Call(op, log) == [op |-> op, log |-> log]

\* cycle c has come to its end (phase "done"): the result callback ran, and
\* lastCall remembers whether it threw
CallbackRan(c, does) ==
    lastCall' = IF c.phase = "done"
                THEN Call(IF does = "throw" THEN "threw" ELSE "returned", 0)
                ELSE lastCall

\* the callback may add a polling loop only below the cap
CbAllowed(does) ==
    (does = "stopstart" \/ (does = "start" /\ timer = NoTimer)) => Loops < MaxLoops

\* start(), called by the application
StartScanner ==
    /\ timer = NoTimer => Loops < MaxLoops
    /\ SetScan(start(ScanState))
    /\ UNCHANGED <<fs, lastCall>>

\* stop(), called by the application
StopScanner ==
    /\ SetScan(stop(ScanState))
    /\ UNCHANGED <<fs, lastCall>>

\* addLog(log), called by the application
AddLog(log) ==
    /\ SetScan(addLog(ScanState, log))
    /\ UNCHANGED <<fs, lastCall>>

\* removeLog(log), called by the application
RemoveLog(log) ==
    /\ SetScan(removeLog(ScanState, log))
    /\ UNCHANGED <<fs, lastCall>>

\* removeAllLogs(), called by the application
RemoveAllLogs ==
    /\ SetScan(removeAllLogs(ScanState))
    /\ UNCHANGED <<fs, lastCall>>

\* setBrain(brain, key), called once by the application, before any cycle is in flight
SetBrain ==
    /\ ~brainBound
    /\ cycles = <<>>
    /\ SetScan(setBrain(ScanState))
    /\ UNCHANGED <<fs, lastCall>>

\* every modification of a file moves its mtime on by one
Writes == fs[1].mtime + fs[2].mtime

\* another process appends n bytes to a log file
FileAppend(p, n) ==
    /\ Writes < MaxWrites
    /\ fs[p].size + n <= MaxSize
    /\ fs' = [fs EXCEPT ![p].size = @ + n, ![p].mtime = @ + 1]
    /\ UNCHANGED <<appVars, logs, stats, timer, pending, cycles, brainBound, brain, lastBatch, lastCall>>

\* another process truncates a log file and writes n bytes to it
FileTruncate(p, n) ==
    /\ Writes < MaxWrites
    /\ n < fs[p].size
    /\ fs' = [fs EXCEPT ![p] = [size |-> n, mtime |-> @.mtime + 1, gen |-> @.gen + 1]]
    /\ UNCHANGED <<appVars, logs, stats, timer, pending, cycles, brainBound, brain, lastBatch, lastCall>>

\* the polling timer t fires; res says what fs.statSync does for each path
TimerFire(t, res) ==
    /\ t \in pending
    /\ SetScan(timerFired(ScanState, t, fs, res))
    /\ UNCHANGED <<fs, lastCall>>

\* fs.open succeeds for the log of cycle i: readAll starts; from keeps the
\* offset the file's stat object has at that moment
OpenOk(i) ==
    /\ cycles[i].phase = "open"
    /\ SetScan([ScanState EXCEPT !.cycles[i] =
                    readAll(ScanState, [cycles[i] EXCEPT !.from = StatOf(ScanState, cycles[i]).offset])])
    /\ UNCHANGED <<fs, lastCall>>

\* fs.open fails for the log of cycle i: scan() goes on with the next log
OpenFail(i, does) ==
    /\ cycles[i].phase = "open"
    /\ CbAllowed(does)
    /\ SetScan(resume(ScanState, i, scan(ScanState, cycles[i]), does))
    /\ CallbackRan(scan(ScanState, cycles[i]), does)
    /\ UNCHANGED fs

\* fs.read answers for cycle i
ReadOk(i) ==
    /\ cycles[i].phase = "read"
    /\ LET r == readDone(ScanState, cycles[i], fs[cycles[i].log])
       IN SetScan([r.z EXCEPT !.cycles[i] = r.c])
    /\ UNCHANGED <<fs, lastCall>>

\* fs.read fails for cycle i: the file is closed, no entry is put into files
ReadFail(i) ==
    /\ cycles[i].phase = "read"
    /\ SetScan([ScanState EXCEPT !.cycles[i].phase = "close"])
    /\ UNCHANGED <<fs, lastCall>>

\* fs.close answers for cycle i (with or without an error): scan() goes on
CloseDone(i, does) ==
    /\ cycles[i].phase = "close"
    /\ CbAllowed(does)
    /\ SetScan(resume(ScanState, i, scan(ScanState, cycles[i]), does))
    /\ CallbackRan(scan(ScanState, cycles[i]), does)
    /\ UNCHANGED fs

StatResults == [Paths -> {"ok", "throw", "notfile"}]
AppendSizes == {1, MaxSize}     \* one byte, or more than one fs.read takes
TruncateSizes == {0, 1}         \* bytes written after the truncation

ScanNext ==
    \/ StartScanner
    \/ StopScanner
    \/ \E p \in Paths : AddLog(p)
    \/ \E p \in Paths : RemoveLog(p)
    \/ RemoveAllLogs
    \/ SetBrain
    \/ \E p \in Paths, n \in AppendSizes : FileAppend(p, n)
    \/ \E p \in Paths, n \in TruncateSizes : FileTruncate(p, n)
    \/ \E t \in TimerIds, res \in StatResults : TimerFire(t, res)
    \/ \E i \in DOMAIN cycles : OpenOk(i)
    \/ \E i \in DOMAIN cycles, does \in CbBehaviours : OpenFail(i, does)
    \/ \E i \in DOMAIN cycles : ReadOk(i)
    \/ \E i \in DOMAIN cycles : ReadFail(i)
    \/ \E i \in DOMAIN cycles, does \in CbBehaviours : CloseDone(i, does)

ScanSpec == Init /\ [][ScanNext]_vars

\* CycleSpec: the scanner while the application calls stop() only between
\* cycles, never while a cycle is in flight and never from the result callback.
StopIdle ==
    /\ cycles = <<>>
    /\ StopScanner

QuietCbBehaviours == {"return", "throw", "start"}

CycleNext ==
    \/ StartScanner
    \/ StopIdle
    \/ \E p \in Paths : AddLog(p)
    \/ \E p \in Paths : RemoveLog(p)
    \/ RemoveAllLogs
    \/ SetBrain
    \/ \E p \in Paths, n \in AppendSizes : FileAppend(p, n)
    \/ \E p \in Paths, n \in TruncateSizes : FileTruncate(p, n)
    \/ \E t \in TimerIds, res \in StatResults : TimerFire(t, res)
    \/ \E i \in DOMAIN cycles : OpenOk(i)
    \/ \E i \in DOMAIN cycles, does \in QuietCbBehaviours : OpenFail(i, does)
    \/ \E i \in DOMAIN cycles : ReadOk(i)
    \/ \E i \in DOMAIN cycles : ReadFail(i)
    \/ \E i \in DOMAIN cycles, does \in QuietCbBehaviours : CloseDone(i, does)

CycleSpec == Init /\ [][CycleNext]_vars

\* RestartSpec: the application calls stop() and start() at any time, also
\* while a cycle is in flight; the files only grow, a byte at a time, and
\* every stat, open, read and close succeeds.
FileGrow(p) ==
    /\ Writes < MaxWrites + 1
    /\ fs[p].size + 1 <= MaxSize
    /\ fs' = [fs EXCEPT ![p].size = @ + 1, ![p].mtime = @ + 1]
    /\ UNCHANGED <<appVars, logs, stats, timer, pending, cycles, brainBound, brain, lastBatch, lastCall>>

AllOk == [p \in Paths |-> "ok"]

RestartNext ==
    \/ StartScanner
    \/ StopScanner
    \/ \E p \in Paths : AddLog(p)
    \/ \E p \in Paths : FileGrow(p)
    \/ \E t \in TimerIds : TimerFire(t, AllOk)
    \/ \E i \in DOMAIN cycles : OpenOk(i)
    \/ \E i \in DOMAIN cycles : ReadOk(i)
    \/ \E i \in DOMAIN cycles : CloseDone(i, "return")

RestartSpec == Init /\ [][RestartNext]_vars

\* ApiSpec: the application's calls to the scanner within one polling
\* interval (no timer fires), each recorded in lastCall.

Recorded(z, op, log) ==
    /\ SetScan(z)
    /\ lastCall' = Call(op, log)
    /\ UNCHANGED fs

CallStart ==
    /\ timer = NoTimer => Loops < MaxLoops
    /\ Recorded(start(ScanState), "start", 0)

CallStop == Recorded(stop(ScanState), "stop", 0)

CallAddLog(log) == Recorded(addLog(ScanState, log), "addLog", log)

CallRemoveLog(log) == Recorded(removeLog(ScanState, log), "removeLog", log)

CallRemoveAllLogs == Recorded(removeAllLogs(ScanState), "removeAllLogs", 0)

CallSetBrain ==
    /\ ~brainBound
    /\ cycles = <<>>
    /\ Recorded(setBrain(ScanState), "setBrain", 0)

ApiNext ==
    \/ CallStart
    \/ CallStop
    \/ \E p \in Paths : CallAddLog(p)
    \/ \E p \in Paths : CallRemoveLog(p)
    \/ CallRemoveAllLogs
    \/ CallSetBrain
    \/ \E p \in Paths, n \in AppendSizes : FileAppend(p, n)
    \/ \E p \in Paths, n \in TruncateSizes : FileTruncate(p, n)

ApiSpec == Init /\ [][ApiNext]_vars

\* ---------------------------------------------------------------- actions
ClosedSockets == {s \in Sockets : sockStatus[s] \in {"dropped", "failed"}}
UnusedSockets == {s \in Sockets : sockStatus[s] = "unused"}

\* App.prototype.start
Start ==
    /\ ~started
    /\ started' = TRUE
    /\ SetApp(connect(AppState))
    /\ UNCHANGED sendLog

\* App.prototype.send, called by the application
Send ==
    /\ started
    /\ Len(sendLog) < MaxMsgs
    /\ sendLog' = Append(sendLog, [closed |-> ClosedSockets, conn |-> connected])
    /\ SetApp(send(AppState, Len(sendLog) + 1))
    /\ UNCHANGED started

\* App.prototype.connect, called by the application
Connect ==
    /\ started
    /\ Len(sendingQueue) < MaxQueue
    /\ SetApp(connect(AppState))
    /\ UNCHANGED <<started, sendLog>>

\* the setImmediate callback of scheduleFlush
RunImmediate ==
    /\ immediates > 0
    /\ SetApp(flush([AppState EXCEPT !.immediates = @ - 1]))
    /\ UNCHANGED <<started, sendLog>>

\* the error branch without its setTimeout: the attempt is given up
loginErrNoRetry(a, i) == [a EXCEPT !.attempts = RemoveAt(@, i)]

\* the retry branch of login's inner function: setTimeout(tryLogin)
loginErr(a, i) == [a EXCEPT !.attempts[i].stage = "timer"]

\* POST /challenge answers with an error or a status other than 200
ChallengeFail(i) ==
    /\ attempts[i].stage = "challenge"
    /\ SetApp(loginErr(AppState, i))
    /\ UNCHANGED <<started, sendLog>>

\* POST /challenge answers 200: POST /login is sent
ChallengeOk(i) ==
    /\ attempts[i].stage = "challenge"
    /\ SetApp([AppState EXCEPT !.attempts[i].stage = "login"])
    /\ UNCHANGED <<started, sendLog>>

\* POST /login answers with an error or a status other than 200
LoginFail(i) ==
    /\ attempts[i].stage = "login"
    /\ SetApp(loginErr(AppState, i))
    /\ UNCHANGED <<started, sendLog>>

\* POST /login answers 200: io() opens a stream and login's inner function registers on it
LoginOk(i) ==
    /\ attempts[i].stage = "login"
    /\ UnusedSockets # {}
    /\ LET s == CHOOSE x \in UnusedSockets : \A y \in UnusedSockets : x <= y
           a == [AppState EXCEPT !.attempts = RemoveAt(@, i),
                                 !.sockStatus[s] = "opening"]
       IN SetApp(loginOk(a, attempts[i].queue, s))
    /\ UNCHANGED <<started, sendLog>>

\* the LOGIN_RETRY_INTERVAL timer fires: tryLogin(login) again
RetryTimer(i) ==
    /\ attempts[i].stage = "timer"
    /\ SetApp(tryLogin([AppState EXCEPT !.attempts = RemoveAt(@, i)], attempts[i].queue))
    /\ UNCHANGED <<started, sendLog>>

\* the stream emits "connect"
SocketConnect(s) ==
    /\ sockStatus[s] = "opening"
    /\ SetApp(onConnect([AppState EXCEPT !.sockStatus[s] = "connected"], s, handlers[s]))
    /\ UNCHANGED <<started, sendLog>>

\* a connected stream emits "disconnect"; a dropped stream never emits again,
\* so its listeners are garbage.  A drop needs a spare stream to reconnect with.
SocketDisconnect(s) ==
    /\ sockStatus[s] = "connected"
    /\ UnusedSockets # {}
    /\ SetApp(onDisconnect([AppState EXCEPT !.sockStatus[s] = "dropped",
                                            !.handlers[s] = <<>>], handlers[s]))
    /\ UNCHANGED <<started, sendLog>>

\* the stream fails to open ("connect_error"/"error"): app.js listens to neither
SocketOpenFail(s) ==
    /\ sockStatus[s] = "opening"
    /\ SetApp([AppState EXCEPT !.sockStatus[s] = "failed", !.handlers[s] = <<>>])
    /\ UNCHANGED <<started, sendLog>>

\* the transport closes after the stream was opened but before it connected:
\* the stream emits "disconnect" without ever having emitted "connect"
SocketCloseBeforeConnect(s) ==
    /\ sockStatus[s] = "opening"
    /\ SetApp(onDisconnect([AppState EXCEPT !.sockStatus[s] = "failed",
                                            !.handlers[s] = <<>>], handlers[s]))
    /\ UNCHANGED <<started, sendLog>>

NextLive ==
    \/ Start
    \/ Send
    \/ Connect
    \/ RunImmediate
    \/ \E i \in DOMAIN attempts : ChallengeFail(i)
    \/ \E i \in DOMAIN attempts : ChallengeOk(i)
    \/ \E i \in DOMAIN attempts : LoginFail(i)
    \/ \E i \in DOMAIN attempts : LoginOk(i)
    \/ \E i \in DOMAIN attempts : RetryTimer(i)
    \/ \E s \in Sockets : SocketConnect(s)
    \/ \E s \in Sockets : SocketDisconnect(s)

Next ==
    \/ NextLive
    \/ \E s \in Sockets : SocketOpenFail(s)
    \/ \E s \in Sockets : SocketCloseBeforeConnect(s)

Spec == Init /\ [][Next]_vars

\* FairSpec: the event loop runs a scheduled setImmediate callback.
FairSpec == Spec /\ WF_vars(RunImmediate)

\* LiveSpec: the stream always opens, the remote service eventually accepts the
\* challenge and the login, timers fire and callbacks run.
LiveSpec ==
    /\ Init /\ [][NextLive]_vars
    /\ WF_vars(RunImmediate)
    /\ WF_vars(\E i \in DOMAIN attempts : RetryTimer(i))
    /\ SF_vars(\E i \in DOMAIN attempts : ChallengeOk(i))
    /\ SF_vars(\E i \in DOMAIN attempts : LoginOk(i))
    /\ WF_vars(\E s \in Sockets : SocketConnect(s))

\* ------------------------------------------------------ connection manager
EmittedMsgs == {emitted[i].msg : i \in DOMAIN emitted}
OpeningSockets == {s \in Sockets : sockStatus[s] = "opening"}

\* C1: messages are emitted in the relative order in which send() enqueued
\* them (message ids are handed out in send() order): no message is emitted
\* before a message that was enqueued earlier.
C1_SendOrderPreserved ==
    \A i, j \in DOMAIN emitted : i < j => emitted[i].msg <= emitted[j].msg

\* two messages, both enqueued before any connection existed, have been emitted
C1_Witness ==
    /\ Len(emitted) >= 2
    /\ \A i \in 1..2 : ~sendLog[emitted[i].msg].conn /\ sendLog[emitted[i].msg].closed = {}

\* C2: every entry enqueued by send() is emitted at most once.
C2_NoDuplicateDelivery ==
    \A i, j \in DOMAIN emitted : emitted[i].msg = emitted[j].msg => i = j

\* every message has been emitted and a stream was dropped on the way
C2_Witness ==
    /\ Len(emitted) = MaxMsgs
    /\ \E s \in Sockets : sockStatus[s] = "dropped"

\* the manager is in Authenticating: a flush is waiting for its login callback
Authenticating == sending /\ ~connected /\ immediates = 0

\* C3: an authentication attempt that failed at any step is retried: while the
\* manager is Authenticating, a request, an opening stream or the retry timer
\* is pending.
C3_RetryAlwaysPending ==
    Authenticating => attempts # <<>> \/ OpeningSockets # {}

\* C4: a message enqueued while the session is Disconnected or Authenticating
\* is eventually emitted over the stream.
C4_QueuedEventuallyEmitted ==
    \A m \in 1..MaxMsgs :
        (Len(sendLog) >= m /\ ~sendLog[m].conn) ~> (m \in EmittedMsgs)

\* a message enqueued while not connected has been emitted
C4_Witness ==
    \E i \in DOMAIN emitted : ~sendLog[emitted[i].msg].conn

\* C5: at most one authentication attempt (request in flight, retry timer
\* pending, or stream awaiting "connect") exists at any time.
C5_SingleAttempt ==
    Len(attempts) + Cardinality(OpeningSockets) <= 1

\* send() was called while an attempt was in flight: its entry waits in the queue
C5_Witness ==
    /\ Len(attempts) + Cardinality(OpeningSockets) = 1
    /\ \E i \in DOMAIN sendingQueue : sendingQueue[i] # Sentinel

\* C6: a message is emitted only on a stream that has signalled "connect" and
\* has not signalled "disconnect", and never on a stream that had already
\* closed when send() was called.
C6_EmitOnlyOnLiveStream ==
    \A i \in DOMAIN emitted :
        /\ emitted[i].live
        /\ emitted[i].sock \notin sendLog[emitted[i].msg].closed

\* a message enqueued after a stream drop has been emitted
C6_Witness ==
    \E i \in DOMAIN emitted :
        \E s \in sendLog[emitted[i].msg].closed : sockStatus[s] = "dropped"

\* the newest stream was dropped after it had connected, and none was opened since
DroppedAndNotReopened ==
    \E s \in Sockets :
        /\ sockStatus[s] = "dropped"
        /\ \A t \in Sockets : t > s => sockStatus[t] = "unused"

\* C7: after a connected stream signals "disconnect" the session handle is
\* cleared and the state is Disconnected, and a new authentication attempt
\* starts without any call from the application.
C7_DropStartsReconnect ==
    /\ [](DroppedAndNotReopened => socket = NoSocket /\ ~connected)
    /\ (DroppedAndNotReopened ~> attempts # <<>>)

\* the attempt that follows a drop is in flight
C7_Witness ==
    DroppedAndNotReopened /\ attempts # <<>>

\* ------------------------------------------------------------ log scanner
\* C8: scan cycles never overlap: a stat pass begins only when no cycle is
\* in flight (the previous result callback has returned), and at most one
\* polling timer is pending.
C8_CyclesNeverOverlap ==
    [][/\ Cardinality(pending') <= 1
       /\ (\E t \in TimerIds, res \in StatResults : TimerFire(t, res)) => cycles = <<>>]_vars

\* C9: when fs.open fails for one of two changed files, the stored state of
\* that file is what it was before the cycle, and the other file's text is
\* still scanned and handed to the result callback.
C9_OpenFailureLeavesState ==
    [][\A i \in DOMAIN cycles :
          (Len(cycles[i].changed) = 2 /\ \E does \in CbBehaviours : OpenFail(i, does)) =>
              LET c == cycles[i]
              IN /\ stats'[c.log] = c.prev[c.log]
                 /\ IF c.index >= Len(c.changed)
                    THEN lastBatch' = c.files
                    ELSE /\ cycles'[i].phase = "open"
                         /\ cycles'[i].log = c.changed[c.index + 1]
                         /\ cycles'[i].files = c.files]_vars

\* C10: after removeLog(path) the path is not in the watched set, and after
\* removeAllLogs() the set is empty; with a brain bound, the set without the
\* removed path(s) is what the brain holds under brainKey + "/logs".
C10_RemoveRemoves ==
    /\ lastCall.op = "removeLog" =>
          /\ lastCall.log \notin SeqToSet(logs)
          /\ brainBound => brain.logs.def /\ lastCall.log \notin SeqToSet(brain.logs.val)
    /\ lastCall.op = "removeAllLogs" =>
          /\ logs = <<>>
          /\ brainBound => brain.logs = Defined(<<>>)

\* C11: when the stored offset of a watched file exceeds the size a fresh
\* stat reports (truncation), the stat pass stores offset 0 with the new size
\* and mtime and, if the file is not empty, puts it on the list to scan; the
\* cycle's first read of it is at position 0; and while the file is not
\* modified again the reads deliver the file from its start and leave the
\* offset at the number of bytes delivered (append 3, scan: offset 3;
\* truncate and write 1, scan: that byte is read and offset is 1).
C11_TruncationResetsOffset ==
    [][/\ \A log \in SeqToSet(logs) :
            stats[log].offset > fs[log].size =>
                \A t \in pending, res \in StatResults :
                    (res[log] = "ok" /\ TimerFire(t, res)) =>
                        /\ stats'[log] = [size |-> fs[log].size, mtime |-> fs[log].mtime,
                                          offset |-> 0]
                        /\ fs[log].size > 0 =>
                              /\ Len(cycles') = Len(cycles) + 1
                              /\ log \in SeqToSet(cycles'[Len(cycles')].changed)
       /\ \A i \in DOMAIN cycles :
            (/\ cycles[i].phase \in {"open", "read"}
             /\ cycles[i].prev[cycles[i].log].offset > stats[cycles[i].log].size) =>
                LET c == cycles[i]
                    f == fs[c.log]
                IN /\ OpenOk(i) =>
                        /\ cycles'[i].phase = "read"
                        /\ cycles'[i].reqPos = 0
                   /\ (ReadOk(i) /\ f.mtime = stats[c.log].mtime) =>
                        /\ stats'[c.log].offset = c.reqPos + c.reqLen
                        /\ cycles'[i].output = FileBytes(f, 0, c.reqPos + c.reqLen)
                        /\ c.reqPos + c.reqLen = f.size =>
                              /\ cycles'[i].phase = "close"
                              /\ cycles'[i].files[c.log] = FileBytes(f, 0, f.size)]_vars

\* a cycle that found the file truncated has read the whole new file
C11_Witness ==
    \E i \in DOMAIN cycles :
        /\ cycles[i].phase = "close"
        /\ cycles[i].prev[cycles[i].log].offset > stats[cycles[i].log].size
        /\ fs[cycles[i].log].size > 0
        /\ cycles[i].files[cycles[i].log] = FileBytes(fs[cycles[i].log], 0, fs[cycles[i].log].size)
        /\ stats[cycles[i].log].offset = fs[cycles[i].log].size

\* C12: for a changed file whose unread delta (stored size minus the offset
\* at open) exceeds MAX_FILE_READ_SIZE and which is not modified during the
\* cycle, every successful fs.read asks for at most MAX_FILE_READ_SIZE bytes
\* at the stored offset, the output is the delta read so far in file order,
\* the read that reaches the stored size puts the complete delta into files
\* with offset equal to size, and what is in files reaches the result
\* callback of the same cycle.
C12_ChunkedReadDeliversDelta ==
    [][\A i \in DOMAIN cycles :
          /\ (/\ cycles[i].phase = "read"
              /\ stats[cycles[i].log].size - cycles[i].from > MAX_FILE_READ_SIZE
              /\ fs[cycles[i].log].mtime = stats[cycles[i].log].mtime
              /\ ReadOk(i)) =>
                 LET c   == cycles[i]
                     f   == fs[c.log]
                     end == c.reqPos + c.reqLen
                 IN /\ c.reqLen <= MAX_FILE_READ_SIZE
                    /\ c.reqPos = stats[c.log].offset
                    /\ c.reqPos = c.from + Len(c.output)
                    /\ stats'[c.log].offset = end
                    /\ cycles'[i].output = FileBytes(f, c.from, end - c.from)
                    /\ IF end = stats[c.log].size
                       THEN /\ cycles'[i].phase = "close"
                            /\ cycles'[i].files[c.log] = FileBytes(f, c.from, f.size - c.from)
                            /\ stats'[c.log].offset = stats'[c.log].size
                       ELSE /\ cycles'[i].phase = "read"
                            /\ cycles'[i].reqPos = end
                            /\ cycles'[i].reqLen = Min(stats[c.log].size - end, MAX_FILE_READ_SIZE)
          /\ \A p \in Paths :
                cycles[i].files[p] # NoText =>
                    IF Len(cycles') = Len(cycles)
                    THEN cycles'[i].files[p] = cycles[i].files[p]
                    ELSE lastBatch'[p] = cycles[i].files[p]]_vars

\* a delta of more than one chunk has been read completely
C12_Witness ==
    \E i \in DOMAIN cycles :
        /\ cycles[i].phase = "close"
        /\ stats[cycles[i].log].size - cycles[i].from > MAX_FILE_READ_SIZE
        /\ cycles[i].files[cycles[i].log] =
               FileBytes(fs[cycles[i].log], cycles[i].from, stats[cycles[i].log].size - cycles[i].from)
        /\ stats[cycles[i].log].offset = stats[cycles[i].log].size

\* fs.statSync finds log with the size and mtime of the stored state
Unchanged(log) ==
    /\ stats[log].size = fs[log].size
    /\ stats[log].mtime = fs[log].mtime

\* C13: in every state, whichever timer fires and whatever fs.statSync
\* answers, the timer callback leaves the stored state of a watched file it
\* finds with the stored size and mtime as it is and does not put the file
\* on the list to scan; if it finds no changed file it starts no scan (the
\* result callback is not run, lastBatch stays) and arms the next timer;
\* and a cycle opens and reads only files on its list and has entries in
\* files only for them.
C13_UnchangedFileIsSkipped ==
    /\ \A t \in pending, res \in StatResults :
          LET z == timerFired(ScanState, t, fs, res)
          IN /\ \A log \in SeqToSet(logs) :
                   (res[log] = "ok" /\ Unchanged(log)) =>
                       /\ z.stats[log] = stats[log]
                       /\ Len(z.cycles) > Len(cycles) =>
                             log \notin SeqToSet(z.cycles[Len(z.cycles)].changed)
             /\ (\A log \in SeqToSet(logs) : res[log] = "ok" => Unchanged(log)) =>
                   /\ z.cycles = cycles
                   /\ z.lastBatch = lastBatch
                   /\ z.timer # NoTimer
                   /\ z.timer \in z.pending
    /\ \A i \in DOMAIN cycles :
          /\ cycles[i].log \in SeqToSet(cycles[i].changed)
          /\ \A p \in Paths :
                cycles[i].files[p] # NoText => p \in SeqToSet(cycles[i].changed)

\* a cycle has scanned one of two watched files and has no entry for the
\* other one, which was scanned before and has not changed since
C13_Witness ==
    \E i \in DOMAIN cycles : \E p \in SeqToSet(logs) :
        /\ cycles[i].phase = "close"
        /\ cycles[i].changed # <<>>
        /\ p \notin SeqToSet(cycles[i].changed)
        /\ cycles[i].files[p] = NoText
        /\ Unchanged(p)
        /\ stats[p].size > 0

\* C14: start() called while the scanner is running (a timer is pending or
\* a cycle is in flight) creates no polling loop: exactly one loop exists
\* afterwards.
C14_StartIsIdempotent ==
    [][(Loops >= 1 /\ StartScanner) => Loops' = 1]_vars

\* how often x is an entry of q
RECURSIVE Count(_, _)
Count(q, x) ==
    IF q = <<>> THEN 0
    ELSE (IF Head(q) = x THEN 1 ELSE 0) + Count(Tail(q), x)

\* C15: after any sequence of addLog, removeLog and removeAllLogs calls the
\* watched set holds each path at most once, and after addLog(p), also on a
\* set that held p already, it holds p exactly once.
C15_AddLogNoDuplicate ==
    /\ \A p \in Paths : Count(logs, p) <= 1
    /\ lastCall.op = "addLog" => Count(logs, lastCall.log) = 1

\* the last call was addLog(p) on a set that held p already: p is not the
\* entry pushed last
C15_Witness ==
    /\ lastCall.op = "addLog"
    /\ Len(logs) = 2
    /\ logs[2] # lastCall.log
    /\ Count(logs, lastCall.log) = 1

\* the step ends cycle i with a result callback that throws
CallbackThrows(i) ==
    /\ scan(ScanState, cycles[i]).phase = "done"
    /\ lastCall' = Call("threw", 0)
    /\ CloseDone(i, "throw") \/ OpenFail(i, "throw")

\* C16: when the result callback throws, the stats the cycle has updated
\* stay stored (and are what the brain holds, if one is bound), the batch
\* has been handed over, the next timer is armed, and the scanner is in the
\* state a callback that returns leaves it in, so that later cycles go on.
C16_CallbackExceptionCaught ==
    [][\A i \in DOMAIN cycles :
          (cycles[i].phase \in {"open", "close"} /\ CallbackThrows(i)) =>
              /\ stats' = stats
              /\ brainBound => brain'.stats = Defined(stats)
              /\ lastBatch' = cycles[i].files
              /\ timer' # NoTimer
              /\ timer' \in pending'
              /\ SetScan(resume(ScanState, i, scan(ScanState, cycles[i]), "return"))]_vars

\* after a callback that threw, a later cycle has read new content
C16_Witness ==
    /\ lastCall.op = "threw"
    /\ \E i \in DOMAIN cycles :
          /\ cycles[i].phase = "close"
          /\ cycles[i].files[cycles[i].log] # NoText
          /\ cycles[i].files[cycles[i].log] # <<>>

\* C17: when a cycle is done with a file (it is closing it), the bytes by
\* which the file's stored offset has advanced since the file was opened
\* are in the cycle's batch: the file has an entry of at least that length.
C17_AdvanceIsDelivered ==
    \A i \in DOMAIN cycles :
        (/\ cycles[i].phase = "close"
         /\ StatOf(ScanState, cycles[i]).offset > cycles[i].from) =>
            /\ cycles[i].files[cycles[i].log] # NoText
            /\ Len(cycles[i].files[cycles[i].log]) >=
                   StatOf(ScanState, cycles[i]).offset - cycles[i].from

\* the step is a call of start(), by the application or by the result
\* callback of a cycle that ends
StartCalled ==
    \/ StartScanner
    \/ \E i \in DOMAIN cycles, does \in {"start", "stopstart"} :
          /\ cycles[i].phase \in {"open", "close"}
          /\ scan(ScanState, cycles[i]).phase = "done"
          /\ CloseDone(i, does) \/ OpenFail(i, does)

\* C18: while the scanner is stopped (_timer is null: stop() has returned
\* and start() has not been called since), no timer is pending and no stat
\* pass begins, and a step that is not a call of start() arms no timer, also
\* when a cycle was in flight at the time of stop().
C18_StopStopsPolling ==
    [][timer = NoTimer =>
          /\ pending = {}
          /\ ~StartCalled => pending' = {}]_vars

\* the flush cycles that are scheduled (setImmediate not yet run) or in
\* flight (their login waits for an HTTP answer, for the retry timer or for
\* the "connect" of a stream that is opening)
FlushesInFlight ==
    immediates + Len(attempts)
    + Cardinality({sk \in Sockets \X (1..MaxMsgs + MaxSockets + 1) :
                      /\ sockStatus[sk[1]] = "opening"
                      /\ sk[2] <= Len(handlers[sk[1]])})

\* C19: whenever this._sendingQueue is not empty this._sending is set; at
\* most one flush is scheduled or in flight, none without the flag, and
\* with the flag set one is, unless its login waits on a stream that failed
\* to open; and the flag is cleared only by a step that ran flush (the
\* setImmediate callback or a "connect" listener) and left the queue empty.
C19_FlagCoversQueue ==
    /\ [](/\ sendingQueue # <<>> => sending
          /\ FlushesInFlight <= 1
          /\ ~sending => FlushesInFlight = 0
          /\ (sending /\ FlushesInFlight = 0) => \E s \in Sockets : sockStatus[s] = "failed")
    /\ [][(sending /\ ~sending') =>
              /\ sendingQueue' = <<>>
              /\ RunImmediate \/ \E s \in Sockets : SocketConnect(s)]_vars

\* a message was enqueued while a flush waits for its login
C19_Witness ==
    /\ sending
    /\ immediates = 0
    /\ FlushesInFlight = 1
    /\ \E k \in DOMAIN sendingQueue : sendingQueue[k] # Sentinel

\* C20: every stored state of a file has 0 <= offset <= size.
C20_OffsetWithinSize ==
    \A p \in Paths :
        /\ stats[p].offset >= 0
        /\ stats[p].size # Undefined => stats[p].offset <= stats[p].size

====
